---- MODULE Spec2Model ----
(***************************************************************************)
(* Call lifecycle of the voice agent: CallContext and CallHandler of       *)
(* agents/call_handler.py.  The handler runs on one cooperative event      *)
(* loop: a coroutine runs atomically up to the await of its backend        *)
(* request, and other coroutines run while it is suspended there.          *)
(***************************************************************************)
EXTENDS Integers, Sequences, FiniteSets, TLC

VARIABLES
    active_calls,      \* CallHandler.active_calls: call_id -> context object
    heap,              \* the CallContext objects ever created, by identity
    http_client,       \* CallHandler._http_client (None or the open client)
    clock,             \* datetime.now()
    tasks,             \* the start_call / end_call / transfer_call invocations
    startedAttempts,   \* POST /api/calls/started issued, per call_id
    endedAttempts,     \* POST /api/calls/ended issued, per call_id
    transferAttempts,  \* POST /api/calls/transfer issued, per call_id
    requests,          \* per invocation: its arguments and the JSON body it posted
    destinations,      \* AgentConfig(transfer_destinations=...), as configured
    transfer_destinations,          \* AgentConfig.transfer_destinations
    default_transfer_destination,   \* AgentConfig.default_transfer_destination
    answer,            \* the last AgentConfig lookup or tool call and what it returned
    room_context,      \* PONELineAgent.room_name and .participant_identity
    transfer_to,       \* transfer_to of PONELineAgent.transfer_call
    api,               \* PONELineAPI: _client, the clients it created, close() calls
    session            \* entrypoint: conversation_history and on_session_end

handlerVars == <<active_calls, heap, http_client, clock, tasks,
                 startedAttempts, endedAttempts, transferAttempts, requests>>

registryVars == <<destinations, transfer_destinations,
                  default_transfer_destination>>

agentVars == <<destinations, transfer_destinations,
               default_transfer_destination, answer,
               room_context, transfer_to, api, session>>

vars == <<active_calls, heap, http_client, clock, tasks,
          startedAttempts, endedAttempts, transferAttempts, requests,
          destinations, transfer_destinations,
          default_transfer_destination, answer,
          room_context, transfer_to, api, session>>

----------------------------------------------------------------------------
(* Bounds *)

MaxTasks == 3
MaxClock == 1
MaxNotes == 2
MaxMessages == 2
MaxDestinations == 2
MaxDigits == 11
MaxCloses == 2
MaxHistory == 2

\* the inputs the operations are called with
CallIds == {"c1", "c2"}
StatusInputs == {"on_hold", "failed"}
EndArgs == {<<{}, {}>>, <<{"sale"}, {"callback"}>>}
NoteTexts == {"note"}
Roles == {"user", "assistant"}
Contents == {"hello"}

----------------------------------------------------------------------------
(* Optional[...] values *)

None == {}
Some(x) == {x}
TheValue(opt) == CHOOSE x \in opt : TRUE

(* class CallStatus(Enum) *)
PENDING == "pending"
RINGING == "ringing"
CONNECTED == "connected"
ON_HOLD == "on_hold"
TRANSFERRING == "transferring"
COMPLETED == "completed"
FAILED == "failed"

CallStatus == {PENDING, RINGING, CONNECTED, ON_HOLD, TRANSFERRING, COMPLETED, FAILED}

(* @dataclass CallContext, as start_call constructs it *)
CallContext(call_id, now) ==
    [call_id     |-> call_id,
     status      |-> CONNECTED,
     started_at  |-> now,
     ended_at    |-> None,
     outcome     |-> None,
     disposition |-> None,
     notes       |-> <<>>,
     transcript  |-> <<>>]

\* variant: transcript.insert(0, ...)
add_message_Prepend(ctx, role, content, now) ==
    [ctx EXCEPT !.transcript =
        <<[role |-> role, content |-> content, timestamp |-> now]>> \o @]

\* CallContext.add_message
add_message(ctx, role, content, now) ==
    [ctx EXCEPT !.transcript =
        Append(@, [role |-> role, content |-> content, timestamp |-> now])]

\* CallContext.to_dict: the snapshot that is serialised into a request
to_dict(ctx, now) ==
    [call_id     |-> ctx.call_id,
     status      |-> ctx.status,
     started_at  |-> ctx.started_at,
     ended_at    |-> ctx.ended_at,
     transcript  |-> ctx.transcript,
     outcome     |-> ctx.outcome,
     disposition |-> ctx.disposition,
     notes       |-> ctx.notes,
     duration_seconds |->
        (IF ctx.ended_at # None THEN TheValue(ctx.ended_at) ELSE now) - ctx.started_at]

----------------------------------------------------------------------------
(* dict operations on active_calls *)

\* self.active_calls.get(call_id)
Get(store, call_id) ==
    IF call_id \in DOMAIN store THEN Some(store[call_id]) ELSE None

\* variant: the table is rebuilt with the new entry alone
SetItem_Rebuilt(store, call_id, obj) == [k \in {call_id} |-> obj]

\* variant: the context is not registered when the notification is sent
SetItem_Skipped(store, call_id, obj) == store

\* self.active_calls[call_id] = ctx
SetItem(store, call_id, obj) ==
    [k \in (DOMAIN store) \cup {call_id} |-> IF k = call_id THEN obj ELSE store[k]]

\* variant: the entry is kept
DelItem_Kept(store, call_id) == store

\* del self.active_calls[call_id]  (the key is present)
DelItem(store, call_id) ==
    [k \in (DOMAIN store) \ {call_id} |-> store[k]]

\* CallHandler.get_client: the client is created on first use only
get_client(client) ==
    IF client = None THEN Some("client") ELSE client

----------------------------------------------------------------------------
(* Coroutine invocations *)

Task(op, call_id, ctx, pc, response, result) ==
    [op |-> op, call_id |-> call_id, ctx |-> ctx, pc |-> pc,
     response |-> response, result |-> result]

Suspended(i) == tasks[i].pc = "await"
Done(i) == tasks[i].pc = "done"

\* the context object a suspended or finished invocation holds in ctx
CtxOf(i) == TheValue(tasks[i].ctx)

Bump(counter, call_id) == [counter EXCEPT ![call_id] = @ + 1]

\* the backend request of a suspended invocation completes: "ok" is a
\* success response, "fail" a transport error, timeout or error status
Responses == {"ok", "fail"}

\* variant: no try/except around the request
notify_call_started_Unguarded(response) ==
    IF response = "fail" THEN "raised" ELSE "returned"

\* _notify_call_started: try/except logs every failure and returns
notify_call_started(response) == "returned"

\* variant: no try/except around the request
notify_call_ended_Unguarded(response) ==
    IF response = "fail" THEN "raised" ELSE "returned"

\* _notify_call_ended: try/except logs every failure and returns
notify_call_ended(response) == "returned"

\* variant: self.active_calls[call_id] in place of .get(call_id)
EndCallNotFound_KeyError == "raised"

\* end_call lines 151-153: unknown call_id, warn and return
EndCallNotFound == "returned"

\* variant: the unknown call_id is reported by an exception
TransferCallNotFound_Raises == "raised"

\* transfer_call lines 191-193: unknown call_id, return False
TransferCallNotFound == "false"

\* what an invocation was called with and what it posted (None: no request)
Request(args, body) == [args |-> args, body |-> body]

\* variant: the disposition is not stored
CompleteCtx_NoDisposition(ctx, now, outcome, disposition) ==
    [ctx EXCEPT !.status = COMPLETED,
                !.ended_at = Some(now),
                !.outcome = outcome]

\* end_call lines 155-158
CompleteCtx(ctx, now, outcome, disposition) ==
    [ctx EXCEPT !.status = COMPLETED,
                !.ended_at = Some(now),
                !.outcome = outcome,
                !.disposition = disposition]

\* variant: a status update reopens the call
SetStatus_Reopens(ctx, status) == [ctx EXCEPT !.status = status, !.ended_at = None]

\* update_call_status line 172
SetStatus(ctx, status) == [ctx EXCEPT !.status = status]

\* transfer_call line 195
BeginTransfer(ctx) == [ctx EXCEPT !.status = TRANSFERRING]

\* variant: the except branch does not restore the status
RollbackTransfer_Missing(ctx) == ctx

\* transfer_call lines 210-213: the except branch
RollbackTransfer(ctx) == [ctx EXCEPT !.status = CONNECTED]

\* variant: ctx.notes = [...] in place of ctx.notes.append(...)
AppendNote_Replaces(ctx, note, now) ==
    [ctx EXCEPT !.notes = <<[content |-> note, timestamp |-> now]>>]

\* add_note lines 179-182
AppendNote(ctx, note, now) ==
    [ctx EXCEPT !.notes = Append(@, [content |-> note, timestamp |-> now])]

\* the notes, and the transcript entries, of the first n contexts together:
\* MaxNotes and MaxMessages bound how many are added over all calls
RECURSIVE NotesUpTo(_), MessagesUpTo(_)
NotesUpTo(n) == IF n = 0 THEN 0 ELSE Len(heap[n].notes) + NotesUpTo(n - 1)
MessagesUpTo(n) == IF n = 0 THEN 0 ELSE Len(heap[n].transcript) + MessagesUpTo(n - 1)

----------------------------------------------------------------------------
(* AgentConfig of agents/agent.py: the transfer destinations.  A string is *)
(* the sequence of its characters.                                         *)

\* str.lower(), character by character
LowerChar(ch) ==
    CASE ch = "A" -> "a"
      [] ch = "B" -> "b"
      [] ch = "S" -> "s"
      [] OTHER -> ch

Lower(str) == [k \in DOMAIN str |-> LowerChar(str[k])]

\* the strings destinations are configured and asked for with
Strs == {<<"a">>, <<"A">>, <<"b">>}
Phones == {<<>>, <<"1">>, <<"2">>}

\* one dict of the transfer_destinations list: "id" may be absent
DestinationDicts ==
    [id : {None} \cup {Some(x) : x \in Strs}, name : Strs, phoneNumber : Phones]

\* class TransferDestination
TransferDestination(id, name, phone_number) ==
    [id |-> id, name |-> name, phone_number |-> phone_number]

\* a dict that keeps insertion order: a sequence of <<key, value>> entries
DictHas(dict, key) == \E k \in DOMAIN dict : dict[k][1] = key

\* dict.get(key): Optional
DictGet(dict, key) ==
    IF DictHas(dict, key)
    THEN Some(dict[CHOOSE k \in DOMAIN dict : dict[k][1] = key][2])
    ELSE None

DictSet_Appends(dict, key, value) == Append(dict, <<key, value>>)

\* dict[key] = value: an existing key keeps its place
DictSet(dict, key, value) ==
    IF DictHas(dict, key)
    THEN [k \in DOMAIN dict |-> IF dict[k][1] = key THEN <<key, value>> ELSE dict[k]]
    ELSE Append(dict, <<key, value>>)

\* dest.get("id", dest.get("name", "").lower())
DestinationKey(dest) ==
    IF dest.id # None THEN TheValue(dest.id) ELSE Lower(dest.name)

\* TransferDestination(id=dest.get("id", ""), ...)
ParsedDestination(dest) ==
    TransferDestination(IF dest.id # None THEN TheValue(dest.id) ELSE <<>>,
                        dest.name, dest.phoneNumber)

\* the three destinations of an agent configured with none
Support == <<"S", "u", "p", "p", "o", "r", "t">>
Sales == <<"S", "a", "l", "e", "s">>
Billing == <<"B", "i", "l", "l", "i", "n", "g">>

DefaultDestinations ==
    << <<Lower(Support), TransferDestination(Lower(Support), Support, <<>>)>>,
       <<Lower(Sales), TransferDestination(Lower(Sales), Sales, <<>>)>>,
       <<Lower(Billing), TransferDestination(Lower(Billing), Billing, <<>>)>> >>

\* the loop of _parse_transfer_destinations over the first n dicts
RECURSIVE ParseUpTo(_, _)
ParseUpTo(dests, n) ==
    IF n = 0 THEN <<>>
    ELSE DictSet(ParseUpTo(dests, n - 1),
                 DestinationKey(dests[n]), ParsedDestination(dests[n]))

\* AgentConfig._parse_transfer_destinations
parse_transfer_destinations(dests) ==
    IF dests = <<>> THEN DefaultDestinations ELSE ParseUpTo(dests, Len(dests))

get_transfer_phone_NoFallback(dict, default, department) ==
    LET dest == DictGet(dict, Lower(department)) IN
    IF dest # None /\ TheValue(dest).phone_number # <<>>
    THEN Some(TheValue(dest).phone_number)
    ELSE None

\* AgentConfig.get_transfer_phone
get_transfer_phone(dict, default, department) ==
    LET dest == DictGet(dict, Lower(department))
        default_dest == DictGet(dict, default) IN
    IF dest # None /\ TheValue(dest).phone_number # <<>>
    THEN Some(TheValue(dest).phone_number)
    ELSE IF default_dest # None /\ TheValue(default_dest).phone_number # <<>>
    THEN Some(TheValue(default_dest).phone_number)
    ELSE None

\* AgentConfig.get_available_departments: the comprehension over .values()
RECURSIVE AvailableUpTo(_, _)
AvailableUpTo(dict, n) ==
    IF n = 0 THEN <<>>
    ELSE IF dict[n][2].phone_number # <<>>
    THEN Append(AvailableUpTo(dict, n - 1), dict[n][2].name)
    ELSE AvailableUpTo(dict, n - 1)

get_available_departments(dict) == AvailableUpTo(dict, Len(dict))

\* the configured lists of at most MaxDestinations dicts
DestinationLists ==
    UNION {[1..n -> DestinationDicts] : n \in 0..MaxDestinations}

NoAnswer == [op |-> "none", department |-> <<>>, result |-> None]

\* PONELineAgent(): room_name = None, participant_identity = None
NoRoomContext == [room_name |-> None, participant_identity |-> None]

\* PONELineAPI(): _client = None; no client created, no close() called
NewAPI == [client |-> None, clients |-> <<>>, closing |-> 0, closes |-> 0]

\* entrypoint: conversation_history = [], the session is running
NewSession ==
    [conversation_history |-> <<>>, pc |-> "active", full_transcript |-> <<>>,
     summarizer |-> "none", analysis |-> None, prompts |-> <<>>,
     status_posts |-> <<>>, steps |-> <<>>]

\* no tool has run, no API client is in use, the session is running
InitIdle ==
    /\ answer = NoAnswer
    /\ room_context = NoRoomContext
    /\ transfer_to = None
    /\ api = NewAPI
    /\ session = NewSession

\* AgentConfig(): no destinations configured, default "support"
InitAgent ==
    /\ destinations = <<>>
    /\ transfer_destinations = parse_transfer_destinations(<<>>)
    /\ default_transfer_destination = Lower(Support)
    /\ InitIdle

InitHandler ==
    /\ active_calls = <<>>
    /\ heap = <<>>
    /\ http_client = None
    /\ clock = 0
    /\ tasks = <<>>
    /\ startedAttempts = [c \in CallIds |-> 0]
    /\ endedAttempts = [c \in CallIds |-> 0]
    /\ transferAttempts = [c \in CallIds |-> 0]
    /\ requests = <<>>

Init == InitHandler /\ InitAgent

\* time passes
Tick ==
    /\ UNCHANGED agentVars
    /\ clock < MaxClock
    /\ clock' = clock + 1
    /\ UNCHANGED <<active_calls, heap, http_client, tasks,
                   startedAttempts, endedAttempts, transferAttempts, requests>>

\* start_call up to the await of POST /api/calls/started
StartCall(call_id) ==
    /\ UNCHANGED agentVars
    /\ Len(tasks) < MaxTasks
    /\ LET obj == Len(heap) + 1 IN
        /\ heap' = Append(heap, CallContext(call_id, clock))
        /\ active_calls' = SetItem(active_calls, call_id, obj)
        /\ tasks' = Append(tasks, Task("start_call", call_id, Some(obj), "await", "pending", "pending"))
    /\ http_client' = get_client(http_client)
    /\ startedAttempts' = Bump(startedAttempts, call_id)
    /\ requests' = Append(requests,
            Request(<<>>, Some(to_dict(CallContext(call_id, clock), clock))))
    /\ UNCHANGED <<clock, endedAttempts, transferAttempts>>

\* start_call resumes when the notification is over, and returns ctx
StartCallReturn(i) ==
    /\ UNCHANGED agentVars
    /\ tasks[i].op = "start_call"
    /\ Suspended(i)
    /\ \E response \in Responses :
        tasks' = [tasks EXCEPT ![i].pc = "done",
                               ![i].response = response,
                               ![i].result = notify_call_started(response)]
    /\ UNCHANGED <<active_calls, heap, http_client, clock,
                   startedAttempts, endedAttempts, transferAttempts, requests>>

\* end_call up to the await of POST /api/calls/ended, or its early return
EndCall(call_id, outcome, disposition) ==
    /\ UNCHANGED agentVars
    /\ Len(tasks) < MaxTasks
    /\ LET ctx == Get(active_calls, call_id) IN
        IF ctx = None
        THEN /\ tasks' = Append(tasks, Task("end_call", call_id, None, "done",
                                           "none", EndCallNotFound))
             /\ requests' = Append(requests, Request(<<outcome, disposition>>, None))
             /\ UNCHANGED <<active_calls, heap, http_client, endedAttempts>>
        ELSE /\ heap' = [heap EXCEPT ![TheValue(ctx)] =
                            CompleteCtx(@, clock, outcome, disposition)]
             /\ http_client' = get_client(http_client)
             /\ endedAttempts' = Bump(endedAttempts, call_id)
             /\ tasks' = Append(tasks, Task("end_call", call_id, ctx, "await",
                                           "pending", "pending"))
             /\ requests' = Append(requests,
                    Request(<<outcome, disposition>>,
                            Some(to_dict(CompleteCtx(heap[TheValue(ctx)], clock,
                                                     outcome, disposition), clock))))
             /\ UNCHANGED active_calls
    /\ UNCHANGED <<clock, startedAttempts, transferAttempts>>

\* end_call resumes: del self.active_calls[call_id] raises KeyError when
\* the key is gone
EndCallReturn(i) ==
    /\ UNCHANGED agentVars
    /\ tasks[i].op = "end_call"
    /\ Suspended(i)
    /\ \E response \in Responses :
        LET notified == notify_call_ended(response)
            call_id == tasks[i].call_id IN
        IF notified = "raised"
        THEN /\ tasks' = [tasks EXCEPT ![i].pc = "done",
                                       ![i].response = response,
                                       ![i].result = "raised"]
             /\ UNCHANGED active_calls
        ELSE IF call_id \in DOMAIN active_calls
        THEN /\ active_calls' = DelItem(active_calls, call_id)
             /\ tasks' = [tasks EXCEPT ![i].pc = "done",
                                       ![i].response = response,
                                       ![i].result = "returned"]
        ELSE /\ tasks' = [tasks EXCEPT ![i].pc = "done",
                                       ![i].response = response,
                                       ![i].result = "raised"]
             /\ UNCHANGED active_calls
    /\ UNCHANGED <<heap, http_client, clock,
                   startedAttempts, endedAttempts, transferAttempts, requests>>

\* update_call_status: no await, one atomic step
UpdateCallStatus(call_id, status) ==
    /\ UNCHANGED agentVars
    /\ LET ctx == Get(active_calls, call_id) IN
        IF ctx # None
        THEN heap' = [heap EXCEPT ![TheValue(ctx)] = SetStatus(@, status)]
        ELSE UNCHANGED heap
    /\ UNCHANGED <<active_calls, http_client, clock, tasks,
                   startedAttempts, endedAttempts, transferAttempts, requests>>

\* add_note: no await, one atomic step
AddNote(call_id, note) ==
    /\ UNCHANGED agentVars
    /\ LET ctx == Get(active_calls, call_id) IN
        IF ctx # None
        THEN /\ NotesUpTo(Len(heap)) < MaxNotes
             /\ heap' = [heap EXCEPT ![TheValue(ctx)] = AppendNote(@, note, clock)]
        ELSE UNCHANGED heap
    /\ UNCHANGED <<active_calls, http_client, clock, tasks,
                   startedAttempts, endedAttempts, transferAttempts, requests>>

\* transfer_call up to the await of POST /api/calls/transfer, or its
\* early return False
TransferCall(call_id) ==
    /\ UNCHANGED agentVars
    /\ Len(tasks) < MaxTasks
    /\ LET ctx == Get(active_calls, call_id) IN
        IF ctx = None
        THEN /\ tasks' = Append(tasks, Task("transfer_call", call_id, None, "done",
                                           "none", TransferCallNotFound))
             /\ requests' = Append(requests, Request(<<>>, None))
             /\ UNCHANGED <<heap, http_client, transferAttempts>>
        ELSE /\ heap' = [heap EXCEPT ![TheValue(ctx)] = BeginTransfer(@)]
             /\ http_client' = get_client(http_client)
             /\ transferAttempts' = Bump(transferAttempts, call_id)
             /\ tasks' = Append(tasks, Task("transfer_call", call_id, ctx, "await",
                                           "pending", "pending"))
             /\ requests' = Append(requests,
                    Request(<<>>, Some([call_id |-> call_id])))
    /\ UNCHANGED <<active_calls, clock, startedAttempts, endedAttempts>>

\* transfer_call resumes: True on success, rollback and False on failure
TransferCallReturn(i) ==
    /\ UNCHANGED agentVars
    /\ tasks[i].op = "transfer_call"
    /\ Suspended(i)
    /\ \E response \in Responses :
        IF response = "ok"
        THEN /\ tasks' = [tasks EXCEPT ![i].pc = "done",
                                       ![i].response = response,
                                       ![i].result = "true"]
             /\ UNCHANGED heap
        ELSE /\ heap' = [heap EXCEPT ![CtxOf(i)] = RollbackTransfer(@)]
             /\ tasks' = [tasks EXCEPT ![i].pc = "done",
                                       ![i].response = response,
                                       ![i].result = "false"]
    /\ UNCHANGED <<active_calls, http_client, clock,
                   startedAttempts, endedAttempts, transferAttempts, requests>>

\* ctx.add_message by a holder of the context start_call returned
AddMessage(obj, role, content) ==
    /\ UNCHANGED agentVars
    /\ MessagesUpTo(Len(heap)) < MaxMessages
    /\ heap' = [heap EXCEPT ![obj] = add_message(@, role, content, clock)]
    /\ UNCHANGED <<active_calls, http_client, clock, tasks,
                   startedAttempts, endedAttempts, transferAttempts, requests>>

Next ==
    \/ Tick
    \/ \E c \in CallIds : StartCall(c)
    \/ \E i \in DOMAIN tasks : StartCallReturn(i)
    \/ \E c \in CallIds, a \in EndArgs : EndCall(c, a[1], a[2])
    \/ \E i \in DOMAIN tasks : EndCallReturn(i)
    \/ \E c \in CallIds, s \in StatusInputs : UpdateCallStatus(c, s)
    \/ \E c \in CallIds, n \in NoteTexts : AddNote(c, n)
    \/ \E c \in CallIds : TransferCall(c)
    \/ \E i \in DOMAIN tasks : TransferCallReturn(i)

Spec == Init /\ [][Next]_vars

\* The operations that read or write the store and the status of a context:
\* time stands still and no note is added, which leaves every step of
\* start_call, end_call, update_call_status and transfer_call as it is.
NextLifecycle ==
    \/ \E c \in CallIds : StartCall(c)
    \/ \E i \in DOMAIN tasks : StartCallReturn(i)
    \/ \E c \in CallIds, a \in EndArgs : EndCall(c, a[1], a[2])
    \/ \E i \in DOMAIN tasks : EndCallReturn(i)
    \/ \E c \in CallIds, s \in StatusInputs : UpdateCallStatus(c, s)
    \/ \E c \in CallIds : TransferCall(c)
    \/ \E i \in DOMAIN tasks : TransferCallReturn(i)

SpecLifecycle == Init /\ [][NextLifecycle]_vars

\* Two calls at one instant, each operation called with one value of its
\* other arguments: both calls are started, ended and transferred, and the
\* second is also held and noted.
NextNotes ==
    \/ \E c \in CallIds : StartCall(c)
    \/ \E i \in DOMAIN tasks : StartCallReturn(i)
    \/ \E c \in CallIds : EndCall(c, Some("sale"), Some("callback"))
    \/ \E i \in DOMAIN tasks : EndCallReturn(i)
    \/ UpdateCallStatus("c2", ON_HOLD)
    \/ \E n \in NoteTexts : AddNote("c2", n)
    \/ \E c \in CallIds : TransferCall(c)
    \/ \E i \in DOMAIN tasks : TransferCallReturn(i)

SpecNotes == Init /\ [][NextNotes]_vars

\* One call_id, started, noted and ended as time passes; add_note is also
\* called with the call_id that is never started.
NextOneCallNotes ==
    \/ Tick
    \/ StartCall("c1")
    \/ \E i \in DOMAIN tasks : StartCallReturn(i)
    \/ EndCall("c1", Some("sale"), Some("callback"))
    \/ \E i \in DOMAIN tasks : EndCallReturn(i)
    \/ \E c \in CallIds, n \in NoteTexts : AddNote(c, n)

SpecOneCallNotes == Init /\ [][NextOneCallNotes]_vars

\* One call_id, started (again and again), whose holders append to the
\* transcript of the contexts start_call returned as time passes.
NextTranscript ==
    \/ Tick
    \/ StartCall("c1")
    \/ \E i \in DOMAIN tasks : StartCallReturn(i)
    \/ \E o \in DOMAIN heap, r \in Roles, m \in Contents : AddMessage(o, r, m)

SpecTranscript == Init /\ [][NextTranscript]_vars

----------------------------------------------------------------------------
(* The destination registry of an agent configured with a list of          *)
(* destinations and a default id, and the lookups made on it.              *)

\* AgentConfig.__init__ lines 77-78
InitRegistry ==
    /\ InitHandler
    /\ destinations \in DestinationLists
    /\ transfer_destinations = parse_transfer_destinations(destinations)
    /\ default_transfer_destination \in Strs
    /\ InitIdle

GetTransferPhone(department) ==
    /\ answer' = [op |-> "get_transfer_phone",
                  department |-> department,
                  result |-> get_transfer_phone(transfer_destinations,
                                default_transfer_destination, department)]
    /\ UNCHANGED registryVars
    /\ UNCHANGED <<room_context, transfer_to, api, session>>
    /\ UNCHANGED handlerVars

GetAvailableDepartments ==
    /\ answer' = [op |-> "get_available_departments",
                  department |-> <<>>,
                  result |-> get_available_departments(transfer_destinations)]
    /\ UNCHANGED registryVars
    /\ UNCHANGED <<room_context, transfer_to, api, session>>
    /\ UNCHANGED handlerVars

NextRegistry ==
    \/ \E d \in Strs : GetTransferPhone(d)
    \/ GetAvailableDepartments

SpecRegistry == InitRegistry /\ [][NextRegistry]_vars

----------------------------------------------------------------------------
(* PONELineAgent.transfer_call, the transfer tool of agents/agent.py       *)

Tel == <<"t", "e", "l", ":">>
Sip == <<"s", "i", "p", ":">>

\* str.startswith
StartsWith(str, prefix) ==
    /\ Len(str) >= Len(prefix)
    /\ SubSeq(str, 1, Len(prefix)) = prefix

\* str.isdigit, of one character
IsDigit(ch) == ch \in {"0", "1", "2", "3", "4", "5", "6", "7", "8", "9"}

\* ''.join(filter(str.isdigit, transfer_to))
CleanNumber(str) == SelectSeq(str, IsDigit)

\* the length at which a cleaned number gets the leading 1
NationalLength == 10

\* lines 228-229
PrependOne(clean_number) ==
    IF ~ StartsWith(clean_number, <<"1">>) /\ Len(clean_number) = NationalLength
    THEN <<"1">> \o clean_number
    ELSE clean_number

FormatTransferTo_Reformats(str) == Tel \o <<"+">> \o PrependOne(CleanNumber(str))

\* lines 225-230: format the phone number for SIP
FormatTransferTo(str) ==
    IF ~ StartsWith(str, Tel) /\ ~ StartsWith(str, Sip)
    THEN Tel \o <<"+">> \o PrependOne(CleanNumber(str))
    ELSE str

UnresolvedReply_Alternatives(available) == "alternatives"

\* lines 218-222: what the tool says when no phone number was resolved
UnresolvedReply(available) ==
    IF available # <<>> THEN "alternatives" ELSE "not_configured"

\* the SIP transfer succeeds, or whatever it raises is caught (lines 236-250)
SipOutcomes == {"ok", "raised"}

\* variant: no try/except around the SIP transfer
SipReply_Uncaught(outcome) ==
    IF outcome = "ok" THEN "transferring" ELSE "raised"

\* lines 236-255: the confirmation after the transfer, the apology of the
\* except branch when it raised
SipReply(outcome) ==
    IF outcome = "ok" THEN "transferring" ELSE "trouble"

\* the messages the tool can return (lines 220, 222, 250, 253, 255)
ToolMessages == {"alternatives", "not_configured", "trouble", "hold", "transferring"}

\* the tool: resolve the department, format the number, transfer, reply
TransferCallTool(department) ==
    LET phone == get_transfer_phone(transfer_destinations,
                                    default_transfer_destination, department) IN
    /\ IF phone = None
       THEN /\ transfer_to' = None
            /\ answer' = [op |-> "transfer_call", department |-> department,
                          result |-> UnresolvedReply(
                              get_available_departments(transfer_destinations)),
                          sip |-> None]
       ELSE /\ transfer_to' = Some(FormatTransferTo(TheValue(phone)))
            /\ IF room_context.room_name # None
                  /\ room_context.participant_identity # None
               THEN \E outcome \in SipOutcomes :
                       answer' = [op |-> "transfer_call", department |-> department,
                                  result |-> SipReply(outcome),
                                  sip |-> Some([participant_identity |->
                                                   room_context.participant_identity,
                                                room_name |-> room_context.room_name,
                                                transfer_to |->
                                                   FormatTransferTo(TheValue(phone)),
                                                outcome |-> outcome])]
               ELSE answer' = [op |-> "transfer_call", department |-> department,
                               result |-> "hold", sip |-> None]
    /\ UNCHANGED registryVars
    /\ UNCHANGED <<room_context, api, session>>
    /\ UNCHANGED handlerVars

\* on_participant_connected: the caller joins, set_room_context
SetRoomContext ==
    /\ room_context.participant_identity = None
    /\ room_context' = [room_name |-> Some("room"),
                        participant_identity |-> Some("caller")]
    /\ UNCHANGED registryVars
    /\ UNCHANGED <<answer, transfer_to, api, session>>
    /\ UNCHANGED handlerVars

\* the configured lists whose destinations are named by their id
NamedDestinationLists ==
    UNION {[1..n -> {[id |-> Some(str), name |-> str, phoneNumber |-> phone] :
                        str \in Strs, phone \in Phones}] :
           n \in 0..MaxDestinations}

\* entrypoint lines 408-412: the agent of a room the caller has not joined
InitTool ==
    /\ InitHandler
    /\ destinations \in NamedDestinationLists
    /\ transfer_destinations = parse_transfer_destinations(destinations)
    /\ default_transfer_destination \in Strs
    /\ answer = NoAnswer
    /\ room_context = [room_name |-> Some("room"), participant_identity |-> None]
    /\ transfer_to = None
    /\ api = NewAPI
    /\ session = NewSession

NextTool ==
    \/ \E d \in Strs : GetTransferPhone(d)
    \/ GetAvailableDepartments
    \/ \E d \in Strs : TransferCallTool(d)
    \/ SetRoomContext

SpecTool == InitTool /\ [][NextTool]_vars

\* the strings of at most MaxDigits digits
DigitStrings == UNION {[1..n -> {"1", "5"}] : n \in 0..MaxDigits}

\* a number as it is written: (555) 1555...
Punctuate(str) ==
    IF Len(str) > 3
    THEN <<"(">> \o SubSeq(str, 1, 3) \o <<")", " ">> \o SubSeq(str, 4, Len(str))
    ELSE <<"+">> \o str

\* the phone numbers a destination is configured with
PhoneInputs ==
    UNION {{str, Punctuate(str), Tel \o str, Sip \o str} : str \in DigitStrings}

\* the formatting step of the tool on its own, on any phone number
FormatStep ==
    /\ transfer_to # None
    /\ transfer_to' = Some(FormatTransferTo(TheValue(transfer_to)))
    /\ answer' = [op |-> "format", department |-> <<>>, result |-> transfer_to]
    /\ UNCHANGED registryVars
    /\ UNCHANGED <<room_context, api, session>>
    /\ UNCHANGED handlerVars

InitFormat ==
    /\ InitHandler
    /\ destinations = <<>>
    /\ transfer_destinations = parse_transfer_destinations(<<>>)
    /\ default_transfer_destination = Lower(Support)
    /\ answer = NoAnswer
    /\ room_context = NoRoomContext
    /\ transfer_to \in {Some(str) : str \in PhoneInputs}
    /\ api = NewAPI
    /\ session = NewSession

NextFormat == FormatStep

SpecFormat == InitFormat /\ [][NextFormat]_vars

----------------------------------------------------------------------------
(* PONELineAPI of agents/api_client.py.  Its methods are coroutines of the *)
(* same event loop: each runs atomically up to the await of its request.   *)

\* the methods that return a bool, and request_transfer, which returns a dict
BoolOps == {"api.update_call_status", "api.save_transcript", "api.log_call_event"}
ApiOps == BoolOps \cup {"api.request_transfer"}

\* how a request ends: a success response, or a network error, a timeout,
\* an error status (raise_for_status), a body that is no JSON (request_transfer)
ApiResponses == {"ok", "network_error", "timeout", "error_status", "unparseable"}

\* the JSON bodies of a successful transfer response
TransferBodies == {[success |-> TRUE], [success |-> FALSE, error |-> "rejected"]}

\* PONELineAPI._get_client: create the client when there is none
GetClient(a) ==
    IF a.client = None
    THEN [a EXCEPT !.client = Some(Len(a.clients) + 1),
                   !.clients = Append(a.clients, [acloses |-> 0])]
    ELSE a

BoolResult_Propagates(response) ==
    IF response = "ok" THEN "true" ELSE "raised"

\* return True after raise_for_status; except Exception: return False
BoolResult(response) ==
    IF response = "ok" THEN "true" ELSE "false"

TransferResult_NoFlag(response, body) ==
    IF response = "ok" THEN body ELSE [error |-> response]

\* request_transfer: return response.json(); except Exception:
\* return {"success": False, "error": str(e)}
TransferResult(response, body) ==
    IF response = "ok" THEN body ELSE [success |-> FALSE, error |-> response]

ApiResult(op, response, body) ==
    IF op \in BoolOps THEN BoolResult(response) ELSE TransferResult(response, body)

\* a method up to the await of its request; a body that cannot be
\* serialised fails before anything is sent
ApiCall(op, call_id, serializable) ==
    /\ Len(tasks) < MaxTasks
    /\ api' = GetClient(api)
    /\ IF serializable
       THEN tasks' = Append(tasks, Task(op, call_id, None, "await", "pending", "pending"))
       ELSE tasks' = Append(tasks, Task(op, call_id, None, "done", "unserializable",
                                        ApiResult(op, "unserializable", <<>>)))
    /\ requests' = Append(requests,
            Request(api'.client, IF serializable THEN Some("json") ELSE None))
    /\ UNCHANGED <<active_calls, heap, http_client, clock,
                   startedAttempts, endedAttempts, transferAttempts>>
    /\ UNCHANGED registryVars
    /\ UNCHANGED <<answer, room_context, transfer_to, session>>

\* the request of a suspended method is over; a request on a client that
\* was closed does not succeed
ApiReturn(i) ==
    /\ tasks[i].op \in ApiOps
    /\ Suspended(i)
    /\ \E response \in ApiResponses, body \in TransferBodies :
        /\ response = "ok" => api.clients[TheValue(requests[i].args)].acloses = 0
        /\ response = "unparseable" => tasks[i].op = "api.request_transfer"
        /\ tasks[i].op \in BoolOps => body = [success |-> TRUE]
        /\ response # "ok" => body = [success |-> TRUE]
        /\ tasks' = [tasks EXCEPT ![i].pc = "done",
                                  ![i].response = response,
                                  ![i].result = ApiResult(tasks[i].op, response, body)]
    /\ UNCHANGED <<active_calls, heap, http_client, clock,
                   startedAttempts, endedAttempts, transferAttempts, requests>>
    /\ UNCHANGED agentVars

\* close() up to the await of aclose(), or its return when there is no client
ApiClose ==
    /\ api.closes < MaxCloses
    /\ IF api.client # None
       THEN api' = [api EXCEPT !.clients[TheValue(api.client)].acloses = @ + 1,
                               !.closing = @ + 1,
                               !.closes = @ + 1]
       ELSE api' = [api EXCEPT !.closes = @ + 1]
    /\ UNCHANGED handlerVars
    /\ UNCHANGED registryVars
    /\ UNCHANGED <<answer, room_context, transfer_to, session>>

\* close() resumes: self._client = None
ApiCloseReturn ==
    /\ api.closing > 0
    /\ api' = [api EXCEPT !.client = None, !.closing = @ - 1]
    /\ UNCHANGED handlerVars
    /\ UNCHANGED registryVars
    /\ UNCHANGED <<answer, room_context, transfer_to, session>>

\* The notifier methods and the handler's notifications on one call
NextNotifier ==
    \/ \E op \in ApiOps, serializable \in BOOLEAN : ApiCall(op, "c1", serializable)
    \/ \E i \in DOMAIN tasks : ApiReturn(i)
    \/ StartCall("c1")
    \/ \E i \in DOMAIN tasks : StartCallReturn(i)
    \/ EndCall("c1", Some("sale"), Some("callback"))
    \/ \E i \in DOMAIN tasks : EndCallReturn(i)

SpecNotifier == Init /\ [][NextNotifier]_vars

\* One method called from several calls, and close()
NextClient ==
    \/ \E c \in CallIds : ApiCall("api.update_call_status", c, TRUE)
    \/ \E i \in DOMAIN tasks : ApiReturn(i)
    \/ ApiClose
    \/ ApiCloseReturn

SpecClient == Init /\ [][NextClient]_vars

----------------------------------------------------------------------------
(* entrypoint of agents/agent.py: the conversation history of a session    *)
(* and on_session_end, which runs when the session ends.                   *)

\* a text of n characters
Text(n) == [k \in 1..n |-> "x"]

\* what is said: a short text, and two around the summary threshold
Utterances == {Text(2), Text(39), Text(40)}

Customer == <<"C", "u", "s", "t", "o", "m", "e", "r">>
AgentLabel == <<"A", "g", "e", "n", "t">>

\* f"{role}: {entry['content']}"
TranscriptLine(entry) ==
    (IF entry.role = "user" THEN Customer ELSE AgentLabel)
        \o <<":", " ">> \o entry.content

\* "\n".join(transcript_lines) over the first n entries
RECURSIVE JoinLines(_, _)
JoinLines(history, n) ==
    IF n = 0 THEN <<>>
    ELSE IF n = 1 THEN TranscriptLine(history[1])
    ELSE JoinLines(history, n - 1) \o <<"\n">> \o TranscriptLine(history[n])

\* lines 445-450
RenderTranscript(history) == JoinLines(history, Len(history))

\* the length below which no summary is asked for
MinTranscriptLength == 50

TooShort_EmptyOnly(transcript) == transcript = <<>>

\* not transcript or len(transcript) < 50
TooShort(transcript) ==
    transcript = <<>> \/ Len(transcript) < MinTranscriptLength

TooShortAnalysis ==
    [summary |-> "Call too short for analysis", sentiment |-> "neutral",
     outcome |-> "unknown"]

AnalysisFailed ==
    [summary |-> "Analysis failed", sentiment |-> "neutral", outcome |-> "unknown"]

\* how the summarizer call ends: it raises, times out, answers with text
\* that is no JSON, with a JSON object (all keys, or some), or with JSON
\* that is no object
SummarizerOutcomes ==
    {"raised", "timeout", "unparseable", "object", "partial", "not_object"}

SummarizerFailures == {"raised", "timeout", "unparseable"}

SummaryResult_Propagates(outcome) ==
    CASE outcome \in SummarizerFailures -> [raised |-> TRUE, value |-> "none"]
      [] outcome = "object" ->
            [raised |-> FALSE,
             value |-> [summary |-> "text", sentiment |-> "positive",
                        outcome |-> "successful"]]
      [] outcome = "partial" -> [raised |-> FALSE, value |-> [summary |-> "text"]]
      [] OTHER -> [raised |-> FALSE, value |-> <<"text">>]

\* lines 360-368: json.loads(response.content), or the fallback on any
\* Exception; the value of a JSON text that is no object is returned too
SummaryResult(outcome) ==
    CASE outcome \in SummarizerFailures -> [raised |-> FALSE, value |-> AnalysisFailed]
      [] outcome = "object" ->
            [raised |-> FALSE,
             value |-> [summary |-> "text", sentiment |-> "positive",
                        outcome |-> "successful"]]
      [] outcome = "partial" -> [raised |-> FALSE, value |-> [summary |-> "text"]]
      [] OTHER -> [raised |-> FALSE, value |-> <<"text">>]

\* analysis.get(key): Optional; defined on a dict only
AnalysisGet(analysis, key) ==
    IF key \in DOMAIN analysis THEN Some(analysis[key]) ELSE None

\* send_call_status lines 312-324: a field is sent when it is given and not empty
StatusPayload(status, transcript, summary, sentiment, outcome) ==
    LET given == [status |-> status, summary |-> summary,
                  sentiment |-> sentiment, outcome |-> outcome]
        keys == {k \in DOMAIN given : given[k] # None /\ given[k] # Some("")}
                  \cup (IF transcript # <<>> THEN {"transcript"} ELSE {}) IN
    [k \in keys \cup {"roomName"} |->
        IF k = "roomName" THEN Some("room")
        ELSE IF k = "transcript" THEN Some(transcript)
        ELSE given[k]]

\* lines 456-463: the final status of the call
FinalStatus(transcript, analysis) ==
    StatusPayload(Some("completed"), transcript,
                  AnalysisGet(analysis, "summary"),
                  AnalysisGet(analysis, "sentiment"),
                  AnalysisGet(analysis, "outcome"))

\* on_user_input / on_agent_speech: the utterance is appended
OnUtterance(role, text) ==
    /\ session.pc = "active"
    /\ Len(session.conversation_history) < MaxHistory
    /\ session' = [session EXCEPT !.conversation_history =
                        Append(@, [role |-> role, content |-> text])]
    /\ UNCHANGED handlerVars
    /\ UNCHANGED registryVars
    /\ UNCHANGED <<answer, room_context, transfer_to, api>>

\* on_session_end up to its first await: the transcript is rendered and
\* generate_call_summary is called; a short transcript is answered at once
\* and the final status is posted, otherwise the summarizer is awaited
OnSessionEnd ==
    /\ session.pc = "active"
    /\ LET full_transcript == RenderTranscript(session.conversation_history) IN
        IF TooShort(full_transcript)
        THEN session' = [session EXCEPT
                !.pc = "sending",
                !.full_transcript = full_transcript,
                !.analysis = Some(TooShortAnalysis),
                !.status_posts = Append(@, FinalStatus(full_transcript, TooShortAnalysis)),
                !.steps = @ \o <<"render", "summarize", "post_status">>]
        ELSE session' = [session EXCEPT
                !.pc = "summarizing",
                !.full_transcript = full_transcript,
                !.summarizer = "pending",
                !.prompts = Append(@, full_transcript),
                !.steps = @ \o <<"render", "summarize">>]
    /\ UNCHANGED handlerVars
    /\ UNCHANGED registryVars
    /\ UNCHANGED <<answer, room_context, transfer_to, api>>

\* the summarizer call is over: generate_call_summary returns, and
\* on_session_end reads the analysis and posts the final status
SummarizerReturn ==
    /\ session.pc = "summarizing"
    /\ \E outcome \in SummarizerOutcomes :
        LET result == SummaryResult(outcome) IN
        IF result.raised \/ outcome = "not_object"
        THEN session' = [session EXCEPT
                !.pc = "raised",
                !.summarizer = outcome,
                !.analysis = IF result.raised THEN None ELSE Some(result.value)]
        ELSE session' = [session EXCEPT
                !.pc = "sending",
                !.summarizer = outcome,
                !.analysis = Some(result.value),
                !.status_posts = Append(@, FinalStatus(session.full_transcript,
                                                      result.value)),
                !.steps = Append(@, "post_status")]
    /\ UNCHANGED handlerVars
    /\ UNCHANGED registryVars
    /\ UNCHANGED <<answer, room_context, transfer_to, api>>

\* send_call_status returns whatever became of the request (lines 333-338)
StatusReturn ==
    /\ session.pc = "sending"
    /\ session' = [session EXCEPT !.pc = "done"]
    /\ UNCHANGED handlerVars
    /\ UNCHANGED registryVars
    /\ UNCHANGED <<answer, room_context, transfer_to, api>>

NextSession ==
    \/ \E text \in Utterances : OnUtterance("user", text)
    \/ \E text \in Utterances : OnUtterance("assistant", text)
    \/ OnSessionEnd
    \/ SummarizerReturn
    \/ StatusReturn

SpecSession == Init /\ [][NextSession]_vars

----------------------------------------------------------------------------
(* Steps of an invocation, as seen by an action formula *)

\* this step invokes operation op on call_id (a new invocation is appended)
Invokes(op, call_id) ==
    /\ Len(tasks') = Len(tasks) + 1
    /\ tasks'[Len(tasks')].op = op
    /\ tasks'[Len(tasks')].call_id = call_id

\* this step resumes the suspended invocation i, which returns or raises
Returns(i) == Suspended(i) /\ tasks'[i].pc = "done"

Terminal == {COMPLETED, FAILED}

----------------------------------------------------------------------------
\* invocation i is the only start_call on call_id c, invocation j the only
\* end_call on it, j was invoked after i, and j is over
StartThenEnd(c, i, j) ==
    /\ i < j
    /\ tasks[i].op = "start_call" /\ tasks[i].call_id = c
    /\ tasks[j].op = "end_call" /\ tasks[j].call_id = c
    /\ Done(j)
    /\ \A k \in DOMAIN tasks :
        (tasks[k].call_id = c /\ tasks[k].op \in {"start_call", "end_call"})
            => k \in {i, j}

(* C1: when exactly one start_call and then exactly one end_call were      *)
(* invoked on a call_id and the end_call has returned, the store has no    *)
(* entry for the call_id and exactly one started and one ended             *)
(* notification were attempted for it, whatever the backend answered.      *)
C1_StartThenEndLeavesNoEntry ==
    \A c \in CallIds : \A i, j \in DOMAIN tasks :
        StartThenEnd(c, i, j) =>
            /\ c \notin DOMAIN active_calls
            /\ startedAttempts[c] = 1
            /\ endedAttempts[c] = 1
            /\ tasks[j].result = "returned"

\* both notifications failed, start_call had returned, end_call returned
C1_Witness ==
    \E c \in CallIds : \E i, j \in DOMAIN tasks :
        /\ StartThenEnd(c, i, j)
        /\ Done(i)
        /\ tasks[i].response = "fail"
        /\ tasks[j].response = "fail"

(* C2: a transfer_call on a stored call whose backend request fails        *)
(* returns False, and the status of its context is CONNECTED at return.    *)
C2_FailedTransferRollsBack ==
    [][\A i \in DOMAIN tasks :
        (tasks[i].op = "transfer_call" /\ Returns(i) /\ tasks'[i].response = "fail")
            => /\ tasks'[i].result = "false"
               /\ heap'[CtxOf(i)].status = CONNECTED]_vars

C2_Witness ==
    \E i \in DOMAIN tasks :
        /\ tasks[i].op = "transfer_call"
        /\ Done(i)
        /\ tasks[i].response = "fail"
        /\ tasks[i].result = "false"
        /\ heap[CtxOf(i)].status = CONNECTED

(* C3: while a transfer_call is in flight the status of its context is     *)
(* TRANSFERRING, and when its request succeeds it returns True with the    *)
(* status still TRANSFERRING.                                              *)
C3_TransferringUntilSuccess ==
    [][\A i \in DOMAIN tasks :
        (tasks[i].op = "transfer_call" /\ Suspended(i)) =>
            IF tasks'[i].pc = "await"
            THEN heap'[CtxOf(i)].status = TRANSFERRING
            ELSE tasks'[i].response = "ok" =>
                    /\ tasks'[i].result = "true"
                    /\ heap'[CtxOf(i)].status = TRANSFERRING]_vars

(* C4: every context whose status is neither COMPLETED nor FAILED has      *)
(* ended_at unset.                                                         *)
C4_EndedAtOnlyWhenTerminal ==
    \A o \in DOMAIN heap :
        heap[o].status \notin Terminal => heap[o].ended_at = None

(* C5: once ended_at of a context is set, no step changes it.              *)
C5_EndedAtSetOnce ==
    [][\A o \in DOMAIN heap :
        heap[o].ended_at # None => heap'[o].ended_at = heap[o].ended_at]_vars

(* C6: once the status of a context is COMPLETED or FAILED, no step        *)
(* changes it.                                                             *)
C6_TerminalIsTerminal ==
    [][\A o \in DOMAIN heap :
        heap[o].status \in Terminal => heap'[o].status = heap[o].status]_vars

(* C7: start_call on a call_id already in the store fails with a           *)
(* duplicate-call error and leaves the store and the existing context      *)
(* unchanged.                                                              *)
C7_DuplicateStartRejected ==
    [][\A c \in CallIds :
        (Invokes("start_call", c) /\ c \in DOMAIN active_calls)
            => /\ tasks'[Len(tasks')].result = "raised"
               /\ active_calls' = active_calls
               /\ heap'[active_calls[c]] = heap[active_calls[c]]]_vars

C9_EndUnknownIsNoOp ==
    [][\A c \in CallIds :
        (Invokes("end_call", c) /\ c \notin DOMAIN active_calls)
            => /\ tasks'[Len(tasks')].pc = "done"
               /\ tasks'[Len(tasks')].result = "returned"
               /\ active_calls' = active_calls
               /\ heap' = heap
               /\ http_client' = http_client
               /\ startedAttempts' = startedAttempts
               /\ endedAttempts' = endedAttempts
               /\ transferAttempts' = transferAttempts]_vars

\* an end_call found no context, once a call of that id had been ended
C9_Witness ==
    \E i, j \in DOMAIN tasks :
        /\ i < j
        /\ tasks[i].op = "end_call" /\ Done(i) /\ tasks[i].ctx # None
        /\ tasks[j].op = "end_call" /\ tasks[j].call_id = tasks[i].call_id
        /\ tasks[j].ctx = None
        /\ tasks[j].result = "returned"

(* C10: no invocation of end_call raises.                                  *)
C10_EndCallNeverRaises ==
    \A i \in DOMAIN tasks :
        tasks[i].op = "end_call" => tasks[i].result # "raised"

(* C11: an end_call on a stored call posts a snapshot with status          *)
(* completed, ended_at set and the outcome and disposition it was called   *)
(* with, the entry still being in the store after that step; an entry      *)
(* leaves the store only in the resuming step of an end_call on its        *)
(* call_id that has posted its notification.                               *)
C11_EndedSnapshotThenRemoval ==
    [][/\ \A c \in CallIds :
            (Invokes("end_call", c) /\ c \in DOMAIN active_calls)
                => LET req == requests'[Len(tasks')] IN
                    /\ req.body # None
                    /\ TheValue(req.body).call_id = c
                    /\ TheValue(req.body).status = COMPLETED
                    /\ TheValue(req.body).ended_at # None
                    /\ TheValue(req.body).outcome = req.args[1]
                    /\ TheValue(req.body).disposition = req.args[2]
                    /\ Get(active_calls', c) = Get(active_calls, c)
       /\ \A c \in DOMAIN active_calls :
            c \notin DOMAIN active_calls'
                => \E i \in DOMAIN tasks :
                    /\ tasks[i].op = "end_call"
                    /\ tasks[i].call_id = c
                    /\ Returns(i)
                    /\ requests[i].body # None]_vars

\* an end_call called with an outcome and a disposition has posted them
\* and then removed the entry
C11_Witness ==
    \E i \in DOMAIN tasks :
        /\ tasks[i].op = "end_call"
        /\ Done(i)
        /\ tasks[i].result = "returned"
        /\ requests[i].args = <<Some("sale"), Some("callback")>>
        /\ requests[i].body # None
        /\ TheValue(requests[i].body).disposition = Some("callback")
        /\ tasks[i].call_id \notin DOMAIN active_calls

(* C12: while a transfer_call or an end_call on a call_id is suspended on  *)
(* its backend request, no step writes its context or the store entry of   *)
(* the call_id, and no other operation is invoked on the call_id.          *)
C12_NoInterleavingOnOneCall ==
    [][\A i \in DOMAIN tasks :
        (/\ tasks[i].op \in {"transfer_call", "end_call"}
         /\ Suspended(i)
         /\ tasks'[i].pc = "await")
            => /\ heap'[CtxOf(i)] = heap[CtxOf(i)]
               /\ Get(active_calls', tasks[i].call_id)
                    = Get(active_calls, tasks[i].call_id)
               /\ ~ (/\ Len(tasks') > Len(tasks)
                     /\ tasks'[Len(tasks')].call_id = tasks[i].call_id)]_vars

\* this step changes the store entry of call_id c or a context of c
Changed(c) ==
    \/ Get(active_calls', c) # Get(active_calls, c)
    \/ \E o \in DOMAIN heap : heap[o].call_id = c /\ heap'[o] # heap[o]

(* C13: a step changes the store entry and the contexts of one call_id at  *)
(* most, and a step of an invocation on call_id a changes those of no      *)
(* other call_id and creates contexts of a alone.                          *)
C13_OtherCallsUntouched ==
    [][/\ \A a, b \in CallIds : (Changed(a) /\ Changed(b)) => a = b
       /\ \A a \in CallIds :
            (Len(tasks') > Len(tasks) /\ tasks'[Len(tasks')].call_id = a)
                => /\ \A b \in CallIds \ {a} : ~ Changed(b)
                   /\ \A o \in (DOMAIN heap') \ (DOMAIN heap) : heap'[o].call_id = a
       /\ \A i \in DOMAIN tasks :
            Returns(i) => \A b \in CallIds \ {tasks[i].call_id} : ~ Changed(b)]_vars

\* a call was ended and removed while another call, held and noted, stays
C13_Witness ==
    \E i \in DOMAIN tasks : \E b \in DOMAIN active_calls :
        /\ tasks[i].op = "end_call"
        /\ Done(i)
        /\ tasks[i].result = "returned"
        /\ tasks[i].ctx # None
        /\ b # tasks[i].call_id
        /\ heap[active_calls[b]].status = ON_HOLD
        /\ Len(heap[active_calls[b]].notes) > 0

(* C14: every step leaves the entries a transcript already has in place    *)
(* and in order, and adds at most one entry, at the end, stamped with the  *)
(* current time; a new context starts with an empty transcript; the        *)
(* timestamps of a transcript never decrease along it.                     *)
C14_TranscriptAppendOnly ==
    [][/\ \A o \in DOMAIN heap :
            LET old == heap[o].transcript
                new == heap'[o].transcript IN
            /\ Len(old) <= Len(new) /\ Len(new) <= Len(old) + 1
            /\ SubSeq(new, 1, Len(old)) = old
            /\ Len(new) > Len(old) => new[Len(new)].timestamp = clock
            /\ \A k \in 1..(Len(new) - 1) : new[k].timestamp <= new[k + 1].timestamp
       /\ \A o \in (DOMAIN heap') \ (DOMAIN heap) : heap'[o].transcript = <<>>]_vars

\* two add_message calls at different times, user first
C14_Witness ==
    \E o \in DOMAIN heap :
        /\ Len(heap[o].transcript) = 2
        /\ heap[o].transcript[1].role = "user"
        /\ heap[o].transcript[2].role = "assistant"
        /\ heap[o].transcript[1].timestamp < heap[o].transcript[2].timestamp

\* a store entry appears only in the invoking step of a start_call on it
EntriesOnlyByStartCall ==
    \A c \in CallIds :
        (c \in DOMAIN active_calls' /\ c \notin DOMAIN active_calls)
            => Invokes("start_call", c)

(* C15: the notes of a context change only by one note, stamped with the   *)
(* current time, being appended to the context stored under its call_id,   *)
(* in a step that changes nothing else; no step but a start_call creates   *)
(* a store entry.                                                          *)
C15_AddNoteAppendsOne ==
    [][/\ \A o \in DOMAIN heap :
            heap'[o].notes # heap[o].notes
                => /\ \E n \in NoteTexts :
                        heap' = [heap EXCEPT ![o].notes =
                                    Append(@, [content |-> n, timestamp |-> clock])]
                   /\ Get(active_calls, heap[o].call_id) = Some(o)
                   /\ UNCHANGED <<active_calls, http_client, clock, tasks,
                                  startedAttempts, endedAttempts,
                                  transferAttempts, requests>>
       /\ EntriesOnlyByStartCall]_vars

\* a stored call with two notes taken at different times
C15_Witness ==
    \E c \in DOMAIN active_calls :
        /\ Len(heap[active_calls[c]].notes) = 2
        /\ heap[active_calls[c]].notes[1].timestamp
            < heap[active_calls[c]].notes[2].timestamp

(* C16: a step outside every invocation that changes the status of a       *)
(* context changes the context stored under its call_id, its status field  *)
(* alone, and nothing else; it creates no store entry.                     *)
C16_UpdateStatusWritesStatusOnly ==
    [][/\ \A o \in DOMAIN heap :
            (tasks' = tasks /\ heap'[o].status # heap[o].status)
                => /\ heap' = [heap EXCEPT ![o].status = heap'[o].status]
                   /\ Get(active_calls, heap[o].call_id) = Some(o)
                   /\ UNCHANGED <<active_calls, http_client, clock,
                                  startedAttempts, endedAttempts,
                                  transferAttempts, requests>>
       /\ tasks' = tasks => active_calls' = active_calls]_vars

\* a context already stamped by end_call was put on hold and kept its
\* ended_at, outcome and disposition
C16_Witness ==
    \E c \in DOMAIN active_calls :
        /\ heap[active_calls[c]].status = ON_HOLD
        /\ heap[active_calls[c]].ended_at # None
        /\ heap[active_calls[c]].outcome = Some("sale")
        /\ heap[active_calls[c]].disposition = Some("callback")

(* C17: transfer_call on a call_id not in the store returns False at once, *)
(* posts no request and changes neither the store nor any context.         *)
C17_TransferUnknownReturnsFalse ==
    [][\A c \in CallIds :
        (Invokes("transfer_call", c) /\ c \notin DOMAIN active_calls)
            => /\ tasks'[Len(tasks')].pc = "done"
               /\ tasks'[Len(tasks')].result = "false"
               /\ requests'[Len(tasks')].body = None
               /\ active_calls' = active_calls
               /\ heap' = heap
               /\ http_client' = http_client
               /\ startedAttempts' = startedAttempts
               /\ endedAttempts' = endedAttempts
               /\ transferAttempts' = transferAttempts]_vars

\* a transfer_call found no context, once the call of that id had been ended
C17_Witness ==
    \E i, j \in DOMAIN tasks :
        /\ i < j
        /\ tasks[i].op = "end_call" /\ Done(i) /\ tasks[i].ctx # None
        /\ tasks[j].op = "transfer_call" /\ tasks[j].call_id = tasks[i].call_id
        /\ tasks[j].ctx = None
        /\ tasks[j].result = "false"
        /\ transferAttempts[tasks[j].call_id] = 0

----------------------------------------------------------------------------
(* The destination registry *)

\* the phone numbers of the registry entries stored under an id
PhonesUnder(id) ==
    {transfer_destinations[k][2].phone_number :
        k \in {j \in DOMAIN transfer_destinations :
                  /\ transfer_destinations[j][1] = id
                  /\ transfer_destinations[j][2].phone_number # <<>>}}

\* no registry entry the department names, in whatever case, has a phone number
NoPhoneFor(department) ==
    \A k \in DOMAIN transfer_destinations :
        Lower(transfer_destinations[k][1]) = Lower(department)
            => transfer_destinations[k][2].phone_number = <<>>

\* C18: get_transfer_phone for a department whose destination has an empty
\* phone number, or for a department that names no destination, returns the
\* phone number of the destination registered under the default id when
\* that one has a phone number, and nothing when it has none.
C18_FallsBackToDefault ==
    (answer.op = "get_transfer_phone" /\ NoPhoneFor(answer.department))
        => answer.result = PhonesUnder(default_transfer_destination)

C18_Witness ==
    /\ answer.op = "get_transfer_phone"
    /\ DictHas(transfer_destinations, Lower(answer.department))
    /\ NoPhoneFor(answer.department)
    /\ default_transfer_destination # Lower(answer.department)
    /\ answer.result # None
    /\ answer.result = PhonesUnder(default_transfer_destination)

\* every configured destination has an id, and no two ids are equal when
\* case is ignored
DistinctIds ==
    /\ \A k \in DOMAIN destinations : destinations[k].id # None
    /\ \A j, k \in DOMAIN destinations :
          Lower(TheValue(destinations[j].id)) = Lower(TheValue(destinations[k].id))
              => j = k

\* the configured destinations with a phone number whose id is str, case ignored
ConfiguredAs(str) ==
    {k \in DOMAIN destinations :
        /\ destinations[k].id # None
        /\ destinations[k].phoneNumber # <<>>
        /\ Lower(TheValue(destinations[k].id)) = Lower(str)}

\* C19: get_transfer_phone looks destinations up by id ignoring case: asked
\* for any case variant of the id of a configured destination that has a
\* phone number it returns that phone number, and when it falls back, a
\* default id that is a case variant of such a destination's id yields that
\* destination's phone number.
C19_LookupIgnoresCase ==
    (answer.op = "get_transfer_phone" /\ DistinctIds) =>
        /\ \A k \in ConfiguredAs(answer.department) :
              answer.result = Some(destinations[k].phoneNumber)
        /\ ConfiguredAs(answer.department) = {} =>
              \A k \in ConfiguredAs(default_transfer_destination) :
                  answer.result = Some(destinations[k].phoneNumber)

\* the names of the first n configured destinations that have a phone number
RECURSIVE ConfiguredWithPhone(_)
ConfiguredWithPhone(n) ==
    IF n = 0 THEN <<>>
    ELSE IF destinations[n].phoneNumber # <<>>
    THEN Append(ConfiguredWithPhone(n - 1), destinations[n].name)
    ELSE ConfiguredWithPhone(n - 1)

\* the last configured destination with the key of the k-th
LastWithKeyOf(k) ==
    destinations[CHOOSE j \in DOMAIN destinations :
        /\ DestinationKey(destinations[j]) = DestinationKey(destinations[k])
        /\ \A m \in (j + 1)..Len(destinations) :
              DestinationKey(destinations[m]) # DestinationKey(destinations[k])]

\* the k-th configured destination is the first one with its key
FirstWithKey(k) ==
    \A j \in 1..(k - 1) :
        DestinationKey(destinations[j]) # DestinationKey(destinations[k])

\* per key among the first n configured destinations, at the place the key
\* first appears, the name of the last destination configured under it, when
\* that one has a phone number
RECURSIVE RegisteredWithPhone(_)
RegisteredWithPhone(n) ==
    IF n = 0 THEN <<>>
    ELSE IF FirstWithKey(n) /\ LastWithKeyOf(n).phoneNumber # <<>>
    THEN Append(RegisteredWithPhone(n - 1), LastWithKeyOf(n).name)
    ELSE RegisteredWithPhone(n - 1)

\* C20 as stated: get_available_departments returns one name per configured
\* destination that has a non-empty phone number, in configured order.
C20_OnePerConfiguredDestination ==
    answer.op = "get_available_departments"
        => answer.result = ConfiguredWithPhone(Len(destinations))

\* C20: get_available_departments returns one name per destination key (the
\* id, or the lower-cased name of a destination without id) whose last
\* configured destination has a non-empty phone number, in the order the
\* keys were first configured.
C20_OnePerRegisteredKey ==
    answer.op = "get_available_departments"
        => answer.result = RegisteredWithPhone(Len(destinations))

C20_Witness ==
    /\ answer.op = "get_available_departments"
    /\ Len(destinations) = 2
    /\ DestinationKey(destinations[1]) = DestinationKey(destinations[2])
    /\ destinations[1].phoneNumber # <<>>
    /\ destinations[2].phoneNumber # <<>>
    /\ destinations[1].name # destinations[2].name
    /\ answer.result = <<destinations[2].name>>

----------------------------------------------------------------------------
(* The transfer tool *)

\* no destination of the registry has a phone number
NoPhones ==
    \A k \in DOMAIN transfer_destinations :
        transfer_destinations[k][2].phone_number = <<>>

\* C21: when no destination has a phone number, get_available_departments
\* returns the empty list, get_transfer_phone returns nothing whatever the
\* department, and the transfer tool answers that transfers are not
\* configured and attempts no SIP transfer.
C21_NoPhonesDisablesTransfers ==
    NoPhones =>
        /\ answer.op = "get_available_departments" => answer.result = <<>>
        /\ answer.op = "get_transfer_phone" => answer.result = None
        /\ answer.op = "transfer_call" =>
              /\ answer.result = "not_configured"
              /\ answer.sip = None
              /\ transfer_to = None

\* the tool was asked for a configured department whose phone is empty, in
\* a room the caller has joined, and answered that transfers are not configured
C21_Witness ==
    /\ NoPhones
    /\ destinations # <<>>
    /\ room_context.participant_identity # None
    /\ answer.op = "transfer_call"
    /\ DictHas(transfer_destinations, Lower(answer.department))
    /\ answer.result = "not_configured"
    /\ answer.sip = None

\* the reference: D is the input without its non-digits
DigitsOf(str) == SelectSeq(str, IsDigit)

Reference(str) ==
    IF Len(DigitsOf(str)) = 10
    THEN Tel \o <<"+", "1">> \o DigitsOf(str)
    ELSE Tel \o <<"+">> \o DigitsOf(str)

Prefixed(str) == StartsWith(str, Tel) \/ StartsWith(str, Sip)

\* C22: formatting an input without tel: or sip: prefix yields tel:+1 and
\* the digits of the input when there are exactly 10 of them, and tel:+
\* and the digits otherwise.
C22_FormatEqualsReference ==
    (answer.op = "format" /\ ~ Prefixed(TheValue(answer.result)))
        => transfer_to = Some(Reference(TheValue(answer.result)))

\* C23: a formatting step leaves an input with tel: or sip: prefix as it
\* is, and leaves the output of a formatting step as it is.
C23_PrefixedPassesAndIdempotent ==
    [][(transfer_to' # transfer_to \/ answer' # answer) =>
          /\ Prefixed(TheValue(transfer_to)) => transfer_to' = transfer_to
          /\ answer.op = "format" => transfer_to' = transfer_to
          /\ Prefixed(TheValue(transfer_to'))]_vars

\* a punctuated number was formatted, and its output was formatted again
\* and came out the same
C23_Witness ==
    /\ answer.op = "format"
    /\ transfer_to = answer.result
    /\ \E str \in DigitStrings :
          /\ Len(str) = NationalLength
          /\ transfer_to = Some(FormatTransferTo(Punctuate(str)))

----------------------------------------------------------------------------
(* The backend notifier *)

\* C24: no notifier method lets a failure of its request out: whenever the
\* request of update_call_status, save_transcript or log_call_event fails,
\* before or after it is sent, the method returns False; start_call returns
\* normally whatever became of its started notification, and end_call goes
\* on to remove the entry whatever became of its ended notification.
C24_NotifierNeverPropagates ==
    [][/\ \A i \in DOMAIN tasks' :
            (tasks'[i].op \in BoolOps /\ tasks'[i].pc = "done")
                => /\ tasks'[i].result \in {"true", "false"}
                   /\ tasks'[i].response # "ok" => tasks'[i].result = "false"
       /\ \A i \in DOMAIN tasks :
            (tasks[i].op = "start_call" /\ Returns(i))
                => tasks'[i].result = "returned"
       /\ \A i \in DOMAIN tasks :
            (tasks[i].op = "end_call" /\ Returns(i)
                /\ tasks[i].call_id \in DOMAIN active_calls)
                => /\ tasks'[i].result = "returned"
                   /\ tasks[i].call_id \notin DOMAIN active_calls']_vars

\* a method returned False after a timeout, another one for a body that
\* could not be serialised, and a start_call whose notification failed returned
C24_Witness ==
    \E i, j, k \in DOMAIN tasks :
        /\ tasks[i].op \in BoolOps
        /\ tasks[i].response = "timeout"
        /\ tasks[i].result = "false"
        /\ tasks[j].op \in BoolOps
        /\ tasks[j].response = "unserializable"
        /\ tasks[j].result = "false"
        /\ tasks[k].op = "start_call"
        /\ Done(k)
        /\ tasks[k].response = "fail"
        /\ tasks[k].result = "returned"

LiveClients == {k \in DOMAIN api.clients : api.clients[k].acloses = 0}

\* C26: the instance has at most one live client at any time, and a live
\* client is the one the instance holds and every operation reuses.
C26_AtMostOneLiveClient ==
    /\ Cardinality(LiveClients) <= 1
    /\ \A k \in LiveClients : api.client = Some(k)

\* C27: every client that was created is closed exactly once by close():
\* never twice, and once as soon as the instance no longer holds it.
C27_ClosedExactlyOnce ==
    \A k \in DOMAIN api.clients :
        /\ api.clients[k].acloses <= 1
        /\ api.client # Some(k) => api.clients[k].acloses = 1

----------------------------------------------------------------------------
(* The end of a session *)

\* C28: for a transcript that is empty or shorter than 50 characters
\* generate_call_summary returns the 'Call too short for analysis' analysis
\* with sentiment neutral and outcome unknown, and the summarizer is not called.
C28_ShortTranscriptNotSummarized ==
    (session.pc # "active" /\ Len(session.full_transcript) < 50)
        => /\ session.analysis =
                Some([summary |-> "Call too short for analysis",
                      sentiment |-> "neutral", outcome |-> "unknown"])
           /\ session.prompts = <<>>
           /\ session.summarizer = "none"

\* a session with a transcript of 49 characters ended with that analysis
C28_Witness ==
    /\ session.pc = "done"
    /\ Len(session.full_transcript) = 49
    /\ session.analysis = Some(TooShortAnalysis)
    /\ session.prompts = <<>>

\* C29: when the summarizer raises, times out or answers with text that
\* cannot be parsed, generate_call_summary returns the 'Analysis failed'
\* analysis without raising, and the final status, completed, is sent.
C29_SummaryFailureDoesNotBlock ==
    session.summarizer \in {"raised", "timeout", "unparseable"}
        => /\ session.analysis =
                Some([summary |-> "Analysis failed", sentiment |-> "neutral",
                      outcome |-> "unknown"])
           /\ session.pc \in {"sending", "done"}
           /\ Len(session.status_posts) = 1
           /\ session.status_posts[1].status = Some("completed")
           /\ session.status_posts[1].summary = Some("Analysis failed")

\* the summarizer timed out and the session finished with its final status sent
C29_Witness ==
    /\ session.summarizer = "timeout"
    /\ session.pc = "done"
    /\ session.analysis = Some(AnalysisFailed)
    /\ session.status_posts[1].status = Some("completed")

\* C30: a session that has ended rendered the transcript, called the
\* summary generator, called end_call and sent the ended notification, in
\* this order, the notification carrying summary, sentiment and outcome;
\* and on_session_end never stops before the notification.
C30_SessionEndSteps ==
    /\ session.pc # "raised"
    /\ session.pc = "done" =>
          /\ session.steps = <<"render", "summarize", "end_call", "post_status">>
          /\ {"summary", "sentiment", "outcome"}
                \subseteq DOMAIN session.status_posts[Len(session.status_posts)]

----------------------------------------------------------------------------
(* Durations *)

\* duration_seconds of context obj as to_dict computes it now
Duration(obj) == to_dict(heap[obj], clock).duration_seconds

(* C31: the duration of a context is never negative; while ended_at is     *)
(* unset it does not decrease as time advances; once ended_at is set it    *)
(* has the same value at every later time.                                 *)
C31_DurationMonotoneThenFixed ==
    [][\A o \in DOMAIN heap :
        /\ Duration(o) >= 0
        /\ Duration(o)' >= 0
        /\ (heap[o].ended_at = None /\ heap'[o].ended_at = None)
                => Duration(o)' >= Duration(o)
        /\ heap[o].ended_at # None => Duration(o)' = Duration(o)]_vars

----------------------------------------------------------------------------
(* Transfer failures of the tool *)

\* C32: whatever the department, the transfer tool returns one of its
\* messages and never raises; when the destination cannot be resolved it
\* returns one of the two replies of that case and attempts no transfer;
\* when the SIP transfer raises it returns the apology, not the
\* 'transferring you now' confirmation.
C32_TransferFailureIsSpoken ==
    answer.op = "transfer_call" =>
        /\ answer.result \in ToolMessages
        /\ get_transfer_phone(transfer_destinations, default_transfer_destination,
                              answer.department) = None
              => /\ answer.result \in {"alternatives", "not_configured"}
                 /\ answer.sip = None
        /\ (answer.sip # None /\ TheValue(answer.sip).outcome = "raised")
              => answer.result = "trouble"

\* the SIP transfer to a resolved destination raised and the tool apologised
C32_Witness ==
    /\ answer.op = "transfer_call"
    /\ answer.sip # None
    /\ TheValue(answer.sip).outcome = "raised"
    /\ answer.result = "trouble"
    /\ transfer_to # None

----------------------------------------------------------------------------
(* Overlapping operations on one call_id *)

\* C33: end_call removes only the context it completed: when it resumes
\* and the store holds another context under its call_id (registered by a
\* start_call while it was suspended), that context stays in the store.
C33_EndCallRemovesOnlyItsContext ==
    [][\A i \in DOMAIN tasks :
        (/\ tasks[i].op = "end_call"
         /\ Returns(i)
         /\ Get(active_calls, tasks[i].call_id) # None
         /\ Get(active_calls, tasks[i].call_id) # tasks[i].ctx)
            => Get(active_calls', tasks[i].call_id)
                    = Get(active_calls, tasks[i].call_id)]_vars

\* the end_call invocations on context obj that posted an ended-notification
EndedNotifications(obj) ==
    {i \in DOMAIN tasks : /\ tasks[i].op = "end_call"
                          /\ tasks[i].ctx = Some(obj)
                          /\ requests[i].body # None}

\* C34: at most one ended-notification is attempted per started call,
\* however many times end_call is invoked on its call_id, after the first
\* end_call returned or while it awaits its notification.
C34_OneEndedNotificationPerCall ==
    \A o \in DOMAIN heap : Cardinality(EndedNotifications(o)) <= 1

\* Calls that are started and transferred, and nothing else
NextTransfers ==
    \/ \E c \in CallIds : StartCall(c)
    \/ \E i \in DOMAIN tasks : StartCallReturn(i)
    \/ \E c \in CallIds : TransferCall(c)
    \/ \E i \in DOMAIN tasks : TransferCallReturn(i)

SpecTransfers == Init /\ [][NextTransfers]_vars

\* invocations i and j are the two transfer_call on one context, j was
\* invoked while i was suspended and has returned, and nothing else was
\* invoked on the call_id since the context was registered
OverlappingTransfers(i, j) ==
    /\ i < j
    /\ tasks[i].op = "transfer_call" /\ tasks[j].op = "transfer_call"
    /\ tasks[i].ctx # None /\ tasks[j].ctx = tasks[i].ctx
    /\ Suspended(i) /\ Done(j)
    /\ \A k \in DOMAIN tasks :
        (tasks[k].call_id = tasks[i].call_id /\ k \notin {i, j})
            => tasks[k].op = "start_call" /\ tasks[k].ctx = tasks[i].ctx

\* C35: when two transfer_call on one call overlap and at least one of them
\* succeeds, the status of the call is TRANSFERRING once both have returned.
C35_RollbackKeepsSucceededTransfer ==
    [][\A i, j \in DOMAIN tasks :
        (/\ OverlappingTransfers(i, j)
         /\ Returns(i)
         /\ (tasks'[i].result = "true" \/ tasks[j].result = "true"))
            => heap'[CtxOf(i)].status = TRANSFERRING]_vars

\* an end_call on call_id is suspended on its ended-notification
EndCallInProgress(call_id) ==
    \E i \in DOMAIN tasks :
        tasks[i].op = "end_call" /\ tasks[i].call_id = call_id /\ Suspended(i)

\* C36: a context that is in the store and has ended_at set has an end_call
\* on its call_id in progress; when no end_call is in progress, every
\* context in the store has ended_at unset.
C36_EndedInStoreMeansEnding ==
    \A c \in DOMAIN active_calls :
        heap[active_calls[c]].ended_at # None => EndCallInProgress(c)

\* a context in the store is completed while its end_call awaits the
\* notification, and the context of the other call is still running
C36_Witness ==
    /\ DOMAIN active_calls = CallIds
    /\ heap[active_calls["c1"]].ended_at # None
    /\ heap[active_calls["c1"]].status = COMPLETED
    /\ EndCallInProgress("c1")
    /\ heap[active_calls["c2"]].ended_at = None
    /\ ~ EndCallInProgress("c2")

\* this step invokes start_call on c: the new context is in the store under
\* c with status CONNECTED when the invocation reaches its notification
RegistersBeforeNotifying(c) ==
    Invokes("start_call", c) =>
        LET obj == TheValue(tasks'[Len(tasks')].ctx) IN
        /\ tasks'[Len(tasks')].pc = "await"
        /\ requests'[Len(tasks')].body # None
        /\ Get(active_calls', c) = Some(obj)
        /\ heap'[obj].status = CONNECTED

\* this step invokes transfer_call or end_call on c and the call is found
FoundIfInvoked(c) ==
    \A op \in {"transfer_call", "end_call"} :
        Invokes(op, c) => tasks'[Len(tasks')].ctx # None

----------------------------------------------------------------------------
(* Requests and close() *)

\* C38: no request is issued on a client that is being closed or has been
\* closed: an operation that obtains the client while close() is suspended
\* in aclose(), or after close() finished, uses an open client.
C38_NoRequestOnClosingClient ==
    [][\A op \in ApiOps, c \in CallIds :
        Invokes(op, c) =>
            LET client == TheValue(requests'[Len(tasks')].args) IN
            api'.clients[client].acloses = 0]_vars

====
